---- MODULE Spec2Model ----
(***************************************************************************)
(* Form C review service: the /api/analyze-form-c request pipeline         *)
(* (backend/app/main.py), the PDF text extractor (pdf_extractor.py), the   *)
(* compliance analyzer (compliance_analyzer.py) and the issue checklist    *)
(* with its queries (compliance_issues_checklist.py).                      *)
(*                                                                         *)
(* Python str values are TLA+ strings.  The extracted document text can be *)
(* longer than the 100,000-character slice taken by the analyzer, so it is *)
(* kept run-length encoded: a Text is a sequence of runs [ch, n] (the      *)
(* character ch repeated n >= 1 times, adjacent runs of different ch).     *)
(* None is the empty tuple and an Optional[str] that is set is <<s>>.      *)
(* Characters outside ASCII in the prompt template are written "?".        *)
(***************************************************************************)
EXTENDS Integers, Sequences, FiniteSets, TLC

\* Number of requests the service receives in one run.
NumRequests == 2

\* Number of checklist queries made in one run.
MaxQueries == 3

Requests == 1..NumRequests

None == <<>>

Some(v) == <<v>>

Min(a, b) == IF a < b THEN a ELSE b

(***************************************************************************)
(* Run-length encoded text (the str operations the code applies to the     *)
(* document text: concatenation, join, len and the [:n] slice).            *)
(***************************************************************************)
AppendRun(t, ch, n) ==
  IF n = 0 THEN t
  ELSE IF t # <<>> /\ t[Len(t)].ch = ch
       THEN [t EXCEPT ![Len(t)].n = @ + n]
       ELSE Append(t, [ch |-> ch, n |-> n])

RECURSIVE Concat(_, _)
Concat(a, b) ==
  IF b = <<>> THEN a ELSE Concat(AppendRun(a, b[1].ch, b[1].n), Tail(b))

RECURSIVE Chars(_)
Chars(s) ==
  IF Len(s) = 0 THEN <<>>
  ELSE Concat(<<[ch |-> SubSeq(s, 1, 1), n |-> 1]>>, Chars(SubSeq(s, 2, Len(s))))

Repeat(ch, n) == AppendRun(<<>>, ch, n)

RECURSIVE TextLen(_)
TextLen(t) == IF t = <<>> THEN 0 ELSE t[1].n + TextLen(Tail(t))

\* Variant of SlicePrefix: the slice is forgotten and the whole text is kept.
SliceKeepsAll(t, n) == t

\* t[:n] for n >= 0
RECURSIVE SlicePrefix(_, _)
SlicePrefix(t, n) ==
  IF n <= 0 \/ t = <<>> THEN <<>>
  ELSE IF t[1].n >= n THEN <<[ch |-> t[1].ch, n |-> n]>>
       ELSE <<t[1]>> \o SlicePrefix(Tail(t), n - t[1].n)

\* t[n:] for n >= 0
RECURSIVE SliceFrom(_, _)
SliceFrom(t, n) ==
  IF n <= 0 \/ t = <<>> THEN t
  ELSE IF t[1].n > n THEN <<[ch |-> t[1].ch, n |-> t[1].n - n]>> \o Tail(t)
       ELSE SliceFrom(Tail(t), n - t[1].n)

\* sep.join(parts)
RECURSIVE Join(_, _)
Join(sep, parts) ==
  IF parts = <<>> THEN <<>>
  ELSE IF Len(parts) = 1 THEN parts[1]
       ELSE Concat(Concat(parts[1], sep), Join(sep, Tail(parts)))

\* str(n) for n >= 0
Digits == <<"0", "1", "2", "3", "4", "5", "6", "7", "8", "9">>

RECURSIVE IntToStr(_)
IntToStr(n) ==
  IF n < 10 THEN Digits[n + 1] ELSE IntToStr(n \div 10) \o Digits[(n % 10) + 1]

\* s.endswith(suffix)
EndsWith(s, suffix) ==
  /\ Len(s) >= Len(suffix)
  /\ SubSeq(s, Len(s) - Len(suffix) + 1, Len(s)) = suffix

(***************************************************************************)
(* Module constants of compliance_analyzer.py and the checklist literal of *)
(* compliance_issues_checklist.py.                                         *)
(***************************************************************************)
COMPLIANCE_CHECKLIST ==
  "\n" \o
  "FORM C COMPLIANCE CHECKLIST (Rule 201 - Regulation Crowdfunding)\n" \o
  "\n" \o
  "The issuer must provide the following disclosures:\n" \o
  "\n" \o
  "1. ISSUER ELIGIBILITY & BASIC DATA (Rule 201(a), (b)):\n" \o
  "   - Issuer name and legal status\n" \o
  "   - Form of organization, jurisdiction, date of organization\n" \o
  "   - Physical address and website\n" \o
  "   - Intermediary information (must be DealMaker Securities LLC)\n" \o
  "   - Intermediary compensation details\n" \o
  "\n" \o
  "2. OFFERING SUMMARY DATA (Rule 201(c)):\n" \o
  "   - Type of security offered\n" \o
  "   - Target number of securities and price\n" \o
  "   - Target offering amount and maximum offering amount\n" \o
  "   - Oversubscription handling (if applicable)\n" \o
  "   - Offering deadline and terms\n" \o
  "   - Current number of employees\n" \o
  "\n" \o
  "3. BUSINESS DESCRIPTION (Rule 201(b)):\n" \o
  "   - Description of business and business plan\n" \o
  "   - Must be specific and not generic\n" \o
  "\n" \o
  "4. RISK FACTORS (Rule 201(g)):\n" \o
  "   - Material factors that make investment speculative or risky\n" \o
  "   - Must be specific to the issuer, not boilerplate\n" \o
  "   - Should address industry-specific risks\n" \o
  "   - Must be consistent with business description\n" \o
  "\n" \o
  "5. DIRECTORS & OFFICERS (Rule 201(h)):\n" \o
  "   - Names of all directors and officers\n" \o
  "   - Positions held and duration\n" \o
  "   - Business experience for past 3 years\n" \o
  "\n" \o
  "6. BENEFICIAL OWNERS (Rule 201(i)):\n" \o
  "   - 20%+ owners (voting equity)\n" \o
  "   - Calculated on basis of voting power\n" \o
  "\n" \o
  "7. OWNERSHIP & CAPITAL STRUCTURE (Rule 201(j)):\n" \o
  "   - Terms of securities being offered\n" \o
  "   - Description of each class of security\n" \o
  "   - Voting rights and limitations\n" \o
  "   - How rights may be diluted\n" \o
  "\n" \o
  "8. FINANCIAL STATEMENTS (Rule 201(t)):\n" \o
  "   - $0-$124k: Tax returns + CEO certified statements\n" \o
  "   - $124k-$618k: CPA reviewed financial statements\n" \o
  "   - $618k+: CPA audited financial statements (first-time issuers up to $1.235M can use reviewed)\n" \o
  "\n" \o
  "9. FINANCIAL CONDITION DISCUSSION (Rule 201(v)):\n" \o
  "   - Liquidity, capital resources\n" \o
  "   - Historical results of operations\n" \o
  "\n" \o
  "10. USE OF PROCEEDS (Rule 201(f)):\n" \o
  "    - Specific purpose and intended use\n" \o
  "    - Must provide detail, not vague \"general corporate purposes\"\n" \o
  "    - If accepting oversubscriptions, explain use of excess\n" \o
  "\n" \o
  "11. RELATED PARTY TRANSACTIONS (Rule 201(s)):\n" \o
  "    - Transactions >5% of capital raised\n" \o
  "    - Must disclose all material terms\n" \o
  "\n" \o
  "12. PRIOR OFFERINGS (Rule 201(e)):\n" \o
  "    - Exempt offerings in past 3 years\n" \o
  "    - Date, exemption used, securities type, amount\n" \o
  "\n" \o
  "13. DEBT & LIABILITIES (Rule 201(u)):\n" \o
  "    - Material indebtedness terms\n" \o
  "    - Amount, interest rate, maturity date\n" \o
  "\n" \o
  "14. DISQUALIFICATION (Rule 227.503):\n" \o
  "    - Bad actor disclosure\n" \o
  "    - Pre-2016 triggering events\n" \o
  "\n" \o
  "15. TRANSACTION PROCESSING (Rule 201(w)):\n" \o
  "    - Investment confirmation process\n" \o
  "    - Cancellation rights (48 hours)\n" \o
  "    - Material changes policy\n" \o
  "    - Rolling/early closings\n" \o
  "\n" \o
  "16. INVESTOR LIMITATIONS (Rule 100):\n" \o
  "    - Clear disclosure of investment limits\n" \o
  "\n" \o
  "CRITICAL INCONSISTENCIES TO FLAG:\n" \o
  "- Conflicting amounts across sections (offering amount, valuation, financials)\n" \o
  "- Dates that don't align (fiscal year, offering deadline, etc.)\n" \o
  "- Mathematical errors (cap table, revenue sums, percentages)\n" \o
  "- Contradictions between sections (business model vs. revenue breakdown)\n"

REVIEW_PROMPT_TEMPLATE ==
  <<
     [lit |->
        "\n" \o
        "You are an expert compliance analyst for DealMaker Securities LLC reviewing a Form C submission for Regulation Crowdfunding.\n" \o
        "\n" \o
        "Your task is to analyze the provided Form C document and generate a comprehensive compliance report following this exact structure:\n" \o
        "\n" \o
        "**REPORT STRUCTURE:**\n" \o
        "\n" \o
        "**I. ? Required Issuer Amendments (External Actions)**\n" \o
        "Focus on material disclosure deficiencies that must be corrected. Organize by category:\n" \o
        "- General Issues\n" \o
        "- Risk Factor Issues\n" \o
        "- Financial Consistency & Math Validation\n" \o
        "- Capital Structure Review\n" \o
        "- Use of Proceeds Validation\n" \o
        "- Cross-Section Conflicts\n" \o
        "\n" \o
        "For each issue, provide:\n" \o
        "- Issue description\n" \o
        "- Rule citation (e.g., Rule 201(f))\n" \o
        "- Severity (Critical, High, Medium)\n" \o
        "- Page number where found\n" \o
        "- Specific explanation with details from the document\n" \o
        "- AI reasoning explaining how you detected this issue\n" \o
        "\n" \o
        "**II. ? Internal Reviewer Verification (Oversight Tasks)**\n" \o
        "Always include these five checks:\n" \o
        "1. Financial Statements (Rule 201(t)) - Confirm required level of assurance\n" \o
        "2. Investor Fee Calculation\n" \o
        "3. Intermediary Compensation (Rule 201(l))\n" \o
        "4. Intermediary Other Interest (Rule 201(l))\n" \o
        "5. Progress Update Mechanism (Rule 203)\n" \o
        "\n" \o
        "**III. ? Required Disclosures Present and Compliant (Rule 201)**\n" \o
        "List all Rule 201 disclosures that ARE present and meet minimum standards.\n" \o
        "\n" \o
        "**IV. ??? Key Personnel and Significant Ownership**\n" \o
        "- Officers and Directors with their positions\n" \o
        "- 20%+ owners with ownership percentages\n" \o
        "- Control persons for entity owners\n" \o
        "\n" \o
        "**CRITICAL ANALYSIS RULES:**\n" \o
        "1. PRIORITIZE INCONSISTENCIES: Any conflicting information (amounts, dates, numbers) is CRITICAL\n" \o
        "2. FLAG MISSING MATERIAL TERMS: Debt maturity, conversion terms, use of proceeds detail\n" \o
        "3. CHECK MATH: Verify all calculations and cross-references\n" \o
        "4. ASSESS SPECIFICITY: Flag generic/boilerplate language in risks and use of proceeds\n" \o
        "5. VERIFY ALIGNMENT: Business description must match financials and risk factors\n" \o
        "\n" \o
        "**COMPLIANCE CHECKLIST:**\n"],
     [field |-> "checklist"],
     [lit |->
        "\n" \o
        "\n" \o
        "**FORM C TO ANALYZE:**\n" \o
        "Issuer: "],
     [field |-> "issuer_name"],
     [lit |->
        "\n" \o
        "\n"],
     [field |-> "form_c_text"],
     [lit |->
        "\n" \o
        "\n" \o
        "Generate the complete compliance report now.\n"]
  >>

StandardChecklist ==
  <<
     [category |-> "ownership_structure",
      issues |-> <<
        [issue |-> "No owners with 20%+ equity identified",
         rule |-> "Rule 201(h)", severity |-> "Critical",
         check |-> "Must identify all beneficial owners with 20% or more of voting equity"],
        [issue |-> "Ownership structure table missing",
         rule |-> "Rule 201(h)", severity |-> "Critical",
         check |-> "Must provide clear ownership structure including percentages"],
        [issue |-> "No mention of voting rights or class differences",
         rule |-> "Rule 201(m)", severity |-> "High",
         check |-> "Must disclose voting rights and any differences between share classes"],
        [issue |-> "No disclosure of shareholder control risks",
         rule |-> "Rule 201(d)", severity |-> "High",
         check |-> "Must disclose risks related to concentrated ownership or control"],
        [issue |-> "No disclosure of principal shareholder influence",
         rule |-> "Rule 201(d)", severity |-> "Medium",
         check |-> "Should describe how principal shareholders may influence company decisions"] >>],
     [category |-> "related_party_transactions",
      issues |-> <<
        [issue |-> "No related-party transactions described",
         rule |-> "Rule 201(s)", severity |-> "Critical",
         check |-> "Must disclose all related party transactions or state 'None' if applicable"] >>],
     [category |-> "business_operations",
      issues |-> <<
        [issue |-> "Business plan not described",
         rule |-> "Rule 201(b)", severity |-> "Critical",
         check |-> "Must provide description of business and business plan"],
        [issue |-> "No information on operations or future growth strategy",
         rule |-> "Rule 201(b)", severity |-> "Critical",
         check |-> "Must describe current operations and planned business development"] >>],
     [category |-> "issuer_information",
      issues |-> <<
        [issue |-> "Physical address missing",
         rule |-> "Rule 201(a)", severity |-> "Critical",
         check |-> "Must provide issuer's physical address"],
        [issue |-> "Website not listed",
         rule |-> "Rule 201(a)", severity |-> "Medium",
         check |-> "Should provide issuer's website if available"],
        [issue |-> "Issuer is organized in Canada, not a U.S. state or territory",
         rule |-> "Rule 100(a)(1)", severity |-> "Critical",
         check |-> "Issuer must be organized under U.S. state or territory laws"] >>],
     [category |-> "intermediary_disclosure",
      issues |-> <<
        [issue |-> "DealMaker Securities LLC intermediary details omitted",
         rule |-> "Rule 201(a)", severity |-> "Critical",
         check |-> "Must identify the intermediary through which offering is conducted"],
        [issue |-> "No description of intermediary's financial interest",
         rule |-> "Rule 201(r)", severity |-> "Critical",
         check |-> "Must disclose intermediary compensation and any other financial interest"],
        [issue |-> "Issuer concurrently using two intermediaries for Reg CF",
         rule |-> "Rule 100(a)(2)", severity |-> "Critical",
         check |-> "May only use one intermediary per offering"] >>],
     [category |-> "financial_statements",
      issues |-> <<
        [issue |-> "No CPA review or audit included",
         rule |-> "Rule 201(t)", severity |-> "Critical",
         check |-> "Financial statements must meet required level of review based on offering size"],
        [issue |-> "Missing CEO certification for unaudited financials",
         rule |-> "Rule 201(t)", severity |-> "Critical",
         check |-> "If financials not reviewed/audited, must include CEO certification"],
        [issue |-> "No mention of accounting election under JOBS Act",
         rule |-> "Rule 201(t)", severity |-> "Low",
         check |-> "May elect to use reduced accounting standards if applicable"] >>],
     [category |-> "offering_details",
      issues |-> <<
        [issue |-> "Target offering amount exceeds limit",
         rule |-> "Rule 100(a)(1)", severity |-> "Critical",
         check |-> "Reg CF offerings limited to $5M in 12-month period"],
        [issue |-> "Deadline not specified",
         rule |-> "Rule 201(g)", severity |-> "Critical",
         check |-> "Must specify offering deadline"],
        [issue |-> "No oversubscription allocation method",
         rule |-> "Rule 201(g)", severity |-> "High",
         check |-> "Must describe how oversubscriptions will be allocated"],
        [issue |-> "Perk disclosure missing",
         rule |-> "Rule 201(k)", severity |-> "High",
         check |-> "Must disclose any perks or rewards offered to investors"],
        [issue |-> "Bonus share details absent",
         rule |-> "Rule 201(k)", severity |-> "High",
         check |-> "Must clearly describe any bonus share programs"] >>],
     [category |-> "investor_rights",
      issues |-> <<
        [issue |-> "No investor cancellation or refund procedure described",
         rule |-> "Rule 303", severity |-> "Critical",
         check |-> "Must describe investor cancellation rights and procedures"],
        [issue |-> "Incorrect cancellation disclosure (no 48-hour window)",
         rule |-> "Rule 303", severity |-> "Critical",
         check |-> "Must allow 48-hour cancellation window before deadline"],
        [issue |-> "No disclosure of 5-day reconfirmation requirement after material change",
         rule |-> "Rule 304", severity |-> "High",
         check |-> "Must disclose reconfirmation requirement after material changes"],
        [issue |-> "No explanation of rolling or early closing mechanics",
         rule |-> "Rule 201(g)", severity |-> "Medium",
         check |-> "Should explain if using rolling closings or early closing option"] >>],
     [category |-> "valuation_risks",
      issues |-> <<
        [issue |-> "Valuation methodology not included",
         rule |-> "Rule 201(d)", severity |-> "High",
         check |-> "Should describe how valuation was determined"],
        [issue |-> "No description of minority shareholder risks",
         rule |-> "Rule 201(d)", severity |-> "High",
         check |-> "Must describe risks specific to minority shareholders"],
        [issue |-> "No disclosure that valuation is speculative",
         rule |-> "Rule 201(d)", severity |-> "Medium",
         check |-> "Should acknowledge speculative nature of valuation"],
        [issue |-> "No valuation disclosure or investor fee explanation",
         rule |-> "Rule 201(d)", severity |-> "High",
         check |-> "Must explain valuation and any fees charged to investors"] >>],
     [category |-> "officers_directors",
      issues |-> <<
        [issue |-> "No names or titles of officers provided",
         rule |-> "Rule 201(n)", severity |-> "Critical",
         check |-> "Must list all officers and directors with titles"],
        [issue |-> "No employment history or relevant experience listed",
         rule |-> "Rule 201(n)", severity |-> "High",
         check |-> "Must provide 3-year employment history for officers/directors"],
        [issue |-> "No indication of other employment positions",
         rule |-> "Rule 201(n)", severity |-> "Medium",
         check |-> "Should disclose other positions held by officers/directors"],
        [issue |-> "Missing officer business affiliations",
         rule |-> "Rule 201(n)", severity |-> "Medium",
         check |-> "Should disclose material business relationships"] >>],
     [category |-> "risk_factors",
      issues |-> <<
        [issue |-> "No discussion of material risks or uncertainties",
         rule |-> "Rule 201(d)", severity |-> "Critical",
         check |-> "Must discuss material factors that make investment risky"],
        [issue |-> "Missing discussion of dilution or tax treatment",
         rule |-> "Rule 201(d)", severity |-> "High",
         check |-> "Should discuss dilution risks and potential tax consequences"] >>],
     [category |-> "escrow_procedures",
      issues |-> <<
        [issue |-> "No escrow agent identified",
         rule |-> "Rule 303", severity |-> "High",
         check |-> "Should identify qualified third party holding investor funds"] >>],
     [category |-> "eligibility",
      issues |-> <<
        [issue |-> "No certification confirming eligibility",
         rule |-> "Rule 100", severity |-> "Critical",
         check |-> "Must certify eligibility to use Reg CF"],
        [issue |-> "Issuer is a reporting company under the Exchange Act",
         rule |-> "Rule 100(b)", severity |-> "Critical",
         check |-> "Reporting companies are ineligible for Reg CF"] >>]
  >>

\* form_c_text[:100000]
MaxFormCChars == 100000

MODEL_NAME == "gemini-2.0-flash-exp"

(***************************************************************************)
(* Inputs of a request and answers of the collaborators.                   *)
(***************************************************************************)
IssuerNames == {"Acme Corp", "Beta LLC"}

FileNames == {"form_c.pdf", "form_c.docx", "pdf"}

PageMarker(page_num) == Chars("--- Page " \o IntToStr(page_num) \o " ---\n")

\* An uploaded file as pdfplumber sees it: unreadable (open raises), or a
\* list of pages, each with the text extract_text() gives (<<>> for none).
Uploads ==
  { [readable |-> FALSE, error |-> "No /Root object! - Is this really a PDF?", pages |-> <<>>],
    [readable |-> TRUE, error |-> "", pages |-> << <<>> >>],
    [readable |-> TRUE, error |-> "", pages |-> << Chars("valid text") >>] }

\* Long documents: len(full_text) is one below the slice limit, at it, one
\* above it, and well above it with the cut inside the third page.
LongUploads ==
  { [readable |-> TRUE, error |-> "",
     pages |-> << Repeat("x", MaxFormCChars - TextLen(PageMarker(1)) - 1) >>],
    [readable |-> TRUE, error |-> "",
     pages |-> << Repeat("x", MaxFormCChars - TextLen(PageMarker(1))) >>],
    [readable |-> TRUE, error |-> "",
     pages |-> << Repeat("x", MaxFormCChars - TextLen(PageMarker(1)) + 1) >>],
    [readable |-> TRUE, error |-> "",
     pages |-> << Chars("valid text"), <<>>, Repeat("y", MaxFormCChars) >>] }

\* Texts the reasoning service can return in response.text.
ResponseTexts == {"NO ISSUES FOUND", ""}

\* str(e) of the exceptions generate_content can raise (timeout, quota or
\* credential rejected; an exception built without a message has str "").
CallErrors == {"504 Deadline Exceeded", ""}

\* str(e) of the ValueError response.text raises when the response has no
\* usable part.
NoTextError == "The response.text quick accessor requires a valid Part"

Severities == {"Critical", "High", "Medium", "Low", "critical", ""}

\* Arguments of get_issues_by_rule: a prefix of several citations, the empty
\* string, a full citation, a citation in lower case, and a pattern that
\* would match as a regular expression.
RuleFragments == {"Rule 100", "", "Rule 201(h)", "rule 201(h)", "Rule 201(.)"}

(***************************************************************************)
(* State                                                                   *)
(***************************************************************************)
VARIABLES
  GEMINI_API_KEY,              \* os.getenv("GEMINI_API_KEY"): None or <<key>>
  COMPLIANCE_ISSUES_CHECKLIST, \* the module-level checklist mapping
  compliance_analyzer,         \* main._compliance_analyzer: None or <<analyzer>>
  tmp_files,                   \* temporary files that exist on disk
  pc,                          \* per request: position in the handler
  request,                     \* per request: None or filename and issuer_name
  temp_file_path,              \* per request: None while the local is unbound
  extraction_result,           \* per request: None or the extractor's dict
  prompt,                      \* per request: None or the prompt sent
  generate_calls,              \* per request: calls of model.generate_content
  generated,                   \* per request: what generate_content answered
  analysis_result,             \* per request: None or the analyzer's dict
  response,                    \* per request: None or what the handler ends with
  issues                       \* the checklist queries made, with their results

vars ==
  <<GEMINI_API_KEY, COMPLIANCE_ISSUES_CHECKLIST, compliance_analyzer, tmp_files,
    pc, request, temp_file_path, extraction_result, prompt, generate_calls,
    generated, analysis_result, response, issues>>

globals == <<GEMINI_API_KEY, COMPLIANCE_ISSUES_CHECKLIST>>

(***************************************************************************)
(* pdf_extractor.py                                                        *)
(***************************************************************************)
\* the loop over enumerate(pdf.pages, start=1), from page page_num on:
\* the entries appended to page_texts
RECURSIVE PageTexts(_, _)
PageTexts(pages, page_num) ==
  IF page_num > Len(pages) THEN <<>>
  ELSE IF pages[page_num] # <<>>
       THEN <<[page |-> page_num, text |-> pages[page_num]]>>
              \o PageTexts(pages, page_num + 1)
       ELSE PageTexts(pages, page_num + 1)

\* the entries appended to full_text
FullTextParts(pages) ==
  LET pt == PageTexts(pages, 1)
  IN  [i \in DOMAIN pt |-> Concat(PageMarker(pt[i].page), pt[i].text)]

extract_text_from_pdf(pdf) ==
  IF pdf.readable
  THEN [success |-> TRUE,
        total_pages |-> Len(pdf.pages),
        full_text |-> Join(Chars("\n\n"), FullTextParts(pdf.pages)),
        pages |-> PageTexts(pdf.pages, 1),
        error |-> None]
  ELSE [success |-> FALSE,
        total_pages |-> 0,
        full_text |-> <<>>,
        pages |-> <<>>,
        error |-> Some(pdf.error)]

(***************************************************************************)
(* compliance_analyzer.py                                                  *)
(***************************************************************************)
\* str.format on a template given as literal and replacement-field segments
Format(template, kwargs) ==
  [i \in DOMAIN template |->
     IF "field" \in DOMAIN template[i]
     THEN [field |-> template[i].field, value |-> kwargs[template[i].field]]
     ELSE template[i]]

\* Variant of ComposePrompt: the prompt carries a running number of the
\* analysis.
ComposePromptNumbered(issuer_name, form_c_text) ==
  Format(REVIEW_PROMPT_TEMPLATE,
         [checklist |-> COMPLIANCE_CHECKLIST,
          issuer_name |->
            issuer_name \o " #" \o
              IntToStr(Cardinality({q \in Requests : generate_calls[q] > 0})),
          form_c_text |-> SlicePrefix(form_c_text, MaxFormCChars)])

\* the prompt built at the head of analyze_form_c
ComposePrompt(issuer_name, form_c_text) ==
  Format(REVIEW_PROMPT_TEMPLATE,
         [checklist |-> COMPLIANCE_CHECKLIST,
          issuer_name |-> issuer_name,
          form_c_text |-> SlicePrefix(form_c_text, MaxFormCChars)])

\* Variant of _parse_analysis: raw_text keeps only a preview of the text.
_parse_analysis_preview(analysis_text) ==
  [amendments |-> <<>>,
   verifications |-> <<>>,
   compliant_disclosures |-> <<>>,
   key_personnel |-> <<>>,
   raw_text |-> SubSeq(analysis_text, 1, Min(Len(analysis_text), 2))]

_parse_analysis(analysis_text) ==
  [amendments |-> <<>>,
   verifications |-> <<>>,
   compliant_disclosures |-> <<>>,
   key_personnel |-> <<>>,
   raw_text |-> analysis_text]

\* Variant of AnalysisSuccess: the narrative is not copied into raw_analysis.
AnalysisSuccessWithoutRaw(issuer_name, analysis_text) ==
  [success |-> TRUE,
   issuer_name |-> issuer_name,
   raw_analysis |-> "",
   structured_analysis |-> _parse_analysis(analysis_text),
   model_used |-> MODEL_NAME,
   error |-> None]

\* Variant of AnalysisSuccess: error is an empty string instead of None.
AnalysisSuccessWithError(issuer_name, analysis_text) ==
  [success |-> TRUE,
   issuer_name |-> issuer_name,
   raw_analysis |-> analysis_text,
   structured_analysis |-> _parse_analysis(analysis_text),
   model_used |-> MODEL_NAME,
   error |-> Some("")]

\* the dict returned at the end of the try block
AnalysisSuccess(issuer_name, analysis_text) ==
  [success |-> TRUE,
   issuer_name |-> issuer_name,
   raw_analysis |-> analysis_text,
   structured_analysis |-> _parse_analysis(analysis_text),
   model_used |-> MODEL_NAME,
   error |-> None]

\* the dict returned by the except Exception block; e is str(e)
AnalysisFailure(issuer_name, e) ==
  [success |-> FALSE,
   issuer_name |-> issuer_name,
   raw_analysis |-> "",
   structured_analysis |-> <<>>,
   error |-> Some(e)]

(***************************************************************************)
(* compliance_issues_checklist.py                                          *)
(***************************************************************************)
\* the issues of one category that have the severity, in list order
RECURSIVE IssuesWithSeverity(_, _)
IssuesWithSeverity(category_issues, severity) ==
  IF category_issues = <<>> THEN <<>>
  ELSE IF category_issues[1].severity = severity
       THEN <<category_issues[1]>> \o IssuesWithSeverity(Tail(category_issues), severity)
       ELSE IssuesWithSeverity(Tail(category_issues), severity)

\* the loop over COMPLIANCE_ISSUES_CHECKLIST.items(), in insertion order
RECURSIVE get_issues_by_severity_from(_, _)
get_issues_by_severity_from(items, severity) ==
  IF items = <<>> THEN <<>>
  ELSE IssuesWithSeverity(items[1].issues, severity)
         \o get_issues_by_severity_from(Tail(items), severity)

\* Variant of get_issues_by_severity: the return sits inside the loop over
\* the categories, so only the first category is searched.
get_issues_by_severity_first(checklist, severity) ==
  IF checklist = <<>> THEN <<>>
  ELSE IssuesWithSeverity(checklist[1].issues, severity)

get_issues_by_severity(checklist, severity) ==
  get_issues_by_severity_from(checklist, severity)

\* sub in s, for str
Contains(s, sub) ==
  \E i \in 0..(Len(s) - Len(sub)) : SubSeq(s, i + 1, i + Len(sub)) = sub

\* the issues of one category whose rule contains the argument, in list order
RECURSIVE IssuesWithRule(_, _)
IssuesWithRule(category_issues, rule) ==
  IF category_issues = <<>> THEN <<>>
  ELSE IF Contains(category_issues[1].rule, rule)
       THEN <<category_issues[1]>> \o IssuesWithRule(Tail(category_issues), rule)
       ELSE IssuesWithRule(Tail(category_issues), rule)

\* the loop over COMPLIANCE_ISSUES_CHECKLIST.items(), in insertion order
RECURSIVE get_issues_by_rule_from(_, _)
get_issues_by_rule_from(items, rule) ==
  IF items = <<>> THEN <<>>
  ELSE IssuesWithRule(items[1].issues, rule)
         \o get_issues_by_rule_from(Tail(items), rule)

\* Variant of get_issues_by_rule: the citation is compared with ==.
RECURSIVE IssuesWithRuleEqual(_, _)
IssuesWithRuleEqual(category_issues, rule) ==
  IF category_issues = <<>> THEN <<>>
  ELSE IF category_issues[1].rule = rule
       THEN <<category_issues[1]>> \o IssuesWithRuleEqual(Tail(category_issues), rule)
       ELSE IssuesWithRuleEqual(Tail(category_issues), rule)

RECURSIVE get_issues_by_rule_equal(_, _)
get_issues_by_rule_equal(checklist, rule) ==
  IF checklist = <<>> THEN <<>>
  ELSE IssuesWithRuleEqual(checklist[1].issues, rule)
         \o get_issues_by_rule_equal(Tail(checklist), rule)

get_issues_by_rule(checklist, rule) ==
  get_issues_by_rule_from(checklist, rule)

LowerLetters == "abcdefghijklmnopqrstuvwxyz"

UpperLetters == "ABCDEFGHIJKLMNOPQRSTUVWXYZ"

\* the position of the one-character str c in letters, 0 when absent
IndexIn(letters, c) ==
  IF \E i \in 1..Len(letters) : SubSeq(letters, i, i) = c
  THEN CHOOSE i \in 1..Len(letters) : SubSeq(letters, i, i) = c
  ELSE 0

\* s.replace(old, new) for a one-character old
RECURSIVE Replace(_, _, _)
Replace(s, old, new) ==
  IF Len(s) = 0 THEN ""
  ELSE (IF SubSeq(s, 1, 1) = old THEN new ELSE SubSeq(s, 1, 1))
         \o Replace(SubSeq(s, 2, Len(s)), old, new)

\* s.title(): a letter that follows a letter is lower-cased, any other
\* letter is upper-cased; after_letter tells whether a letter precedes s
RECURSIVE TitleFrom(_, _)
TitleFrom(s, after_letter) ==
  IF Len(s) = 0 THEN ""
  ELSE LET c == SubSeq(s, 1, 1)
           lo == IndexIn(LowerLetters, c)
           up == IndexIn(UpperLetters, c)
           k == IF lo > 0 THEN lo ELSE up
       IN  (IF k = 0 THEN c
            ELSE IF after_letter THEN SubSeq(LowerLetters, k, k)
                 ELSE SubSeq(UpperLetters, k, k))
             \o TitleFrom(SubSeq(s, 2, Len(s)), k > 0)

Title(s) == TitleFrom(s, FALSE)

\* "\n".join(parts) for a list of str
RECURSIVE JoinLines(_)
JoinLines(parts) ==
  IF parts = <<>> THEN ""
  ELSE IF Len(parts) = 1 THEN parts[1]
       ELSE parts[1] \o "\n" \o JoinLines(Tail(parts))

\* the entry appended to prompt_sections for one issue
IssuePrompt(issue_dict) ==
  "- Check: " \o issue_dict.check \o "\n" \o
  "  If missing/inadequate, report: \"" \o issue_dict.issue \o "\"\n" \o
  "  Rule: " \o issue_dict.rule \o ", Severity: " \o issue_dict.severity

\* the entries appended to prompt_sections for one category
CategoryPrompt(item) ==
  <<"\n### " \o Title(Replace(item.category, "_", " ")) \o ":">>
    \o [i \in DOMAIN item.issues |-> IssuePrompt(item.issues[i])]

\* prompt_sections after the loop over the categories
RECURSIVE PromptSections(_)
PromptSections(items) ==
  IF items = <<>> THEN <<>>
  ELSE CategoryPrompt(items[1]) \o PromptSections(Tail(items))

get_all_issues_as_prompt(checklist) == JoinLines(PromptSections(checklist))

TempPath(r) == "/tmp/tmp" \o IntToStr(r) \o ".pdf"

HTTPException(status_code, detail) ==
  [type |-> "HTTPException", status_code |-> status_code, detail |-> detail]

JSONResponse(content) == [type |-> "JSONResponse", content |-> content]

Init ==
  /\ GEMINI_API_KEY \in {None, Some("test-key")}
  /\ COMPLIANCE_ISSUES_CHECKLIST = StandardChecklist
  /\ compliance_analyzer = None
  /\ tmp_files = {}
  /\ pc = [r \in Requests |-> "idle"]
  /\ request = [r \in Requests |-> None]
  /\ temp_file_path = [r \in Requests |-> None]
  /\ extraction_result = [r \in Requests |-> None]
  /\ prompt = [r \in Requests |-> None]
  /\ generate_calls = [r \in Requests |-> 0]
  /\ generated = [r \in Requests |-> None]
  /\ analysis_result = [r \in Requests |-> None]
  /\ response = [r \in Requests |-> None]
  /\ issues = <<>>

(***************************************************************************)
(* main.py: POST /api/analyze-form-c                                       *)
(***************************************************************************)
\* The handler is a coroutine without an await: the event loop runs its body
\* to completion before it starts the body of the next request.  Requests
\* arrive (the framework reads their forms) at any time.
InFlight == {r \in Requests : pc[r] \notin {"idle", "received", "done"}}

\* The event loop may start the handler body of request r: no body is
\* running.  Requests are numbered in the order their bodies run.
MayStart(r) ==
  /\ InFlight = {}
  /\ \A q \in Requests : q < r => pc[q] = "done"

\* Request r arrives with its form fields.
Receive(r, filename, issuer_name) ==
  /\ pc[r] = "idle"
  /\ request' = [request EXCEPT ![r] =
       [filename |-> filename, issuer_name |-> issuer_name]]
  /\ pc' = [pc EXCEPT ![r] = "received"]
  /\ UNCHANGED <<globals, compliance_analyzer, tmp_files, temp_file_path,
                 extraction_result, prompt, generate_calls, generated,
                 analysis_result, response, issues>>

\* if not file.filename.endswith('.pdf'): raise HTTPException(400)
RejectNonPdf(r) ==
  /\ pc[r] = "received"
  /\ MayStart(r)
  /\ ~EndsWith(request[r].filename, ".pdf")
  /\ response' = [response EXCEPT ![r] =
       HTTPException(400, "Only PDF files are accepted")]
  /\ pc' = [pc EXCEPT ![r] = "done"]
  /\ UNCHANGED <<globals, compliance_analyzer, tmp_files, request,
                 temp_file_path, extraction_result, prompt, generate_calls,
                 generated, analysis_result, issues>>

\* NamedTemporaryFile(delete=False) and copyfileobj succeed
SaveUpload(r) ==
  /\ pc[r] = "received"
  /\ MayStart(r)
  /\ EndsWith(request[r].filename, ".pdf")
  /\ tmp_files' = tmp_files \cup {TempPath(r)}
  /\ temp_file_path' = [temp_file_path EXCEPT ![r] = Some(TempPath(r))]
  /\ pc' = [pc EXCEPT ![r] = "saved"]
  /\ UNCHANGED <<globals, compliance_analyzer, request, extraction_result,
                 prompt, generate_calls, generated, analysis_result, response,
                 issues>>

\* NamedTemporaryFile raises (created = FALSE) or copyfileobj raises after
\* the file was created (created = TRUE).  temp_file_path is never bound, so
\* the finally block raises UnboundLocalError in place of the HTTPException
\* the except Exception block was raising.
SaveUploadFails(r, created) ==
  /\ pc[r] = "received"
  /\ MayStart(r)
  /\ EndsWith(request[r].filename, ".pdf")
  /\ tmp_files' = IF created THEN tmp_files \cup {TempPath(r)} ELSE tmp_files
  /\ response' = [response EXCEPT ![r] = [type |-> "UnboundLocalError"]]
  /\ pc' = [pc EXCEPT ![r] = "done"]
  /\ UNCHANGED <<globals, compliance_analyzer, request, temp_file_path,
                 extraction_result, prompt, generate_calls, generated,
                 analysis_result, issues>>

\* Variant of ExtractText: the success flag of the extraction is not checked.
ExtractTextUnchecked(r, pdf) ==
  /\ pc[r] = "saved"
  /\ extraction_result' = [extraction_result EXCEPT ![r] = extract_text_from_pdf(pdf)]
  /\ pc' = [pc EXCEPT ![r] = "analyze"]
  /\ UNCHANGED <<globals, compliance_analyzer, tmp_files, request,
                 temp_file_path, prompt, generate_calls, generated,
                 analysis_result, response, issues>>

\* pdf_extractor.extract_text_from_pdf on the saved file, which pdfplumber
\* reads as pdf, then the check of the success flag
ExtractText(r, pdf) ==
  /\ pc[r] = "saved"
  /\ LET result == extract_text_from_pdf(pdf)
     IN  /\ extraction_result' = [extraction_result EXCEPT ![r] = result]
         /\ IF ~result.success
            THEN /\ response' = [response EXCEPT ![r] =
                      HTTPException(422, "Failed to extract PDF text: " \o result.error[1])]
                 /\ pc' = [pc EXCEPT ![r] = "cleanup"]
            ELSE /\ response' = response
                 /\ pc' = [pc EXCEPT ![r] = "analyze"]
  /\ UNCHANGED <<globals, compliance_analyzer, tmp_files, request,
                 temp_file_path, prompt, generate_calls, generated,
                 analysis_result, issues>>

\* Variant of AnalyzerUnavailable: get_compliance_analyzer() does not test
\* the key, ComplianceAnalyzer.__init__ raises ValueError and the handler
\* reports it as an unexpected error.
AnalyzerUnavailableUnexpected(r) ==
  /\ pc[r] = "analyze"
  /\ compliance_analyzer = None
  /\ GEMINI_API_KEY = None
  /\ response' = [response EXCEPT ![r] =
       HTTPException(500, "An unexpected error occurred: Gemini API key is required")]
  /\ pc' = [pc EXCEPT ![r] = "cleanup"]
  /\ UNCHANGED <<globals, compliance_analyzer, tmp_files, request,
                 temp_file_path, extraction_result, prompt, generate_calls,
                 generated, analysis_result, issues>>

\* get_compliance_analyzer() without an analyzer and without a key
AnalyzerUnavailable(r) ==
  /\ pc[r] = "analyze"
  /\ compliance_analyzer = None
  /\ GEMINI_API_KEY = None
  /\ response' = [response EXCEPT ![r] =
       HTTPException(500, "Gemini API key not configured. Please set GEMINI_API_KEY environment variable.")]
  /\ pc' = [pc EXCEPT ![r] = "cleanup"]
  /\ UNCHANGED <<globals, compliance_analyzer, tmp_files, request,
                 temp_file_path, extraction_result, prompt, generate_calls,
                 generated, analysis_result, issues>>

\* Variant of StartAnalysis: the issuer name is kept in one place for all
\* requests, written when a request arrives; the prompt names the issuer
\* of the highest-numbered request that has arrived.
StartAnalysisSharedIssuer(r) ==
  /\ pc[r] = "analyze"
  /\ compliance_analyzer # None \/ GEMINI_API_KEY # None
  /\ compliance_analyzer' =
       IF compliance_analyzer = None
       THEN Some([api_key |-> GEMINI_API_KEY[1], model |-> MODEL_NAME])
       ELSE compliance_analyzer
  /\ LET last == CHOOSE q \in Requests :
                   /\ request[q] # None
                   /\ \A o \in Requests : request[o] # None => o <= q
     IN  prompt' = [prompt EXCEPT ![r] =
           ComposePrompt(request[last].issuer_name, extraction_result[r].full_text)]
  /\ generate_calls' = [generate_calls EXCEPT ![r] = @ + 1]
  /\ pc' = [pc EXCEPT ![r] = "generating"]
  /\ UNCHANGED <<globals, tmp_files, request, temp_file_path,
                 extraction_result, generated, analysis_result, response,
                 issues>>

\* get_compliance_analyzer() returns the analyzer (creating it on first use);
\* analyze_form_c builds the prompt and calls model.generate_content
StartAnalysis(r) ==
  /\ pc[r] = "analyze"
  /\ compliance_analyzer # None \/ GEMINI_API_KEY # None
  /\ compliance_analyzer' =
       IF compliance_analyzer = None
       THEN Some([api_key |-> GEMINI_API_KEY[1], model |-> MODEL_NAME])
       ELSE compliance_analyzer
  /\ prompt' = [prompt EXCEPT ![r] =
       ComposePrompt(request[r].issuer_name, extraction_result[r].full_text)]
  /\ generate_calls' = [generate_calls EXCEPT ![r] = @ + 1]
  /\ pc' = [pc EXCEPT ![r] = "generating"]
  /\ UNCHANGED <<globals, tmp_files, request, temp_file_path,
                 extraction_result, generated, analysis_result, response,
                 issues>>

\* the handler's code after analyzer.analyze_form_c returned analysis
AfterAnalysis(r, analysis) ==
  IF ~analysis.success
  THEN HTTPException(500, "AI analysis failed: " \o analysis.error[1])
  ELSE JSONResponse(
         [success |-> TRUE,
          issuer_name |-> request[r].issuer_name,
          total_pages |-> extraction_result[r].total_pages,
          raw_analysis |-> analysis.raw_analysis,
          structured_analysis |-> analysis.structured_analysis,
          model_used |-> IF "model_used" \in DOMAIN analysis
                         THEN Some(analysis.model_used) ELSE None,
          error |-> None])

\* generate_content returns a response whose text is analysis_text
GenerateReturns(r, analysis_text) ==
  /\ pc[r] = "generating"
  /\ generated' = [generated EXCEPT ![r] = [kind |-> "text", text |-> analysis_text]]
  /\ LET analysis == AnalysisSuccess(request[r].issuer_name, analysis_text)
     IN  /\ analysis_result' = [analysis_result EXCEPT ![r] = analysis]
         /\ response' = [response EXCEPT ![r] = AfterAnalysis(r, analysis)]
  /\ pc' = [pc EXCEPT ![r] = "cleanup"]
  /\ UNCHANGED <<globals, compliance_analyzer, tmp_files, request,
                 temp_file_path, extraction_result, prompt, generate_calls,
                 issues>>

\* Variant of GenerateRaises: a failed call is sent once more before the
\* failure is reported.
GenerateRaisesRetry(r, kind, e) ==
  /\ pc[r] = "generating"
  /\ IF generate_calls[r] < 2
     THEN /\ generate_calls' = [generate_calls EXCEPT ![r] = @ + 1]
          /\ UNCHANGED <<generated, analysis_result, response, pc>>
     ELSE /\ generated' = [generated EXCEPT ![r] = [kind |-> kind, error |-> e]]
          /\ analysis_result' = [analysis_result EXCEPT ![r] =
                AnalysisFailure(request[r].issuer_name, e)]
          /\ response' = [response EXCEPT ![r] =
                AfterAnalysis(r, AnalysisFailure(request[r].issuer_name, e))]
          /\ pc' = [pc EXCEPT ![r] = "cleanup"]
          /\ UNCHANGED generate_calls
  /\ UNCHANGED <<globals, compliance_analyzer, tmp_files, request,
                 temp_file_path, extraction_result, prompt, issues>>

\* generate_content raises an exception e (kind "call"), or response.text
\* raises ValueError (kind "no_text"); e is str(e)
GenerateRaises(r, kind, e) ==
  /\ pc[r] = "generating"
  /\ generated' = [generated EXCEPT ![r] = [kind |-> kind, error |-> e]]
  /\ LET analysis == AnalysisFailure(request[r].issuer_name, e)
     IN  /\ analysis_result' = [analysis_result EXCEPT ![r] = analysis]
         /\ response' = [response EXCEPT ![r] = AfterAnalysis(r, analysis)]
  /\ pc' = [pc EXCEPT ![r] = "cleanup"]
  /\ UNCHANGED <<globals, compliance_analyzer, tmp_files, request,
                 temp_file_path, extraction_result, prompt, generate_calls,
                 issues>>

\* finally: os.unlink(temp_file_path) succeeds (unlinked = TRUE) or raises
\* and is logged (unlinked = FALSE)
Cleanup(r, unlinked) ==
  /\ pc[r] = "cleanup"
  /\ tmp_files' =
       IF temp_file_path[r] # None /\ temp_file_path[r][1] \in tmp_files /\ unlinked
       THEN tmp_files \ {temp_file_path[r][1]}
       ELSE tmp_files
  /\ pc' = [pc EXCEPT ![r] = "done"]
  /\ UNCHANGED <<globals, compliance_analyzer, request, temp_file_path,
                 extraction_result, prompt, generate_calls, generated,
                 analysis_result, response, issues>>

(***************************************************************************)
(* Checklist queries                                                       *)
(***************************************************************************)
GetIssuesBySeverity(severity) ==
  /\ Len(issues) < MaxQueries
  /\ issues' = Append(issues,
       [fn |-> "get_issues_by_severity", arg |-> severity,
        result |-> get_issues_by_severity(COMPLIANCE_ISSUES_CHECKLIST, severity)])
  /\ UNCHANGED <<globals, compliance_analyzer, tmp_files, pc, request,
                 temp_file_path, extraction_result, prompt, generate_calls,
                 generated, analysis_result, response>>

Next ==
  \/ \E r \in Requests, filename \in FileNames, issuer_name \in IssuerNames :
        Receive(r, filename, issuer_name)
  \/ \E r \in Requests : RejectNonPdf(r)
  \/ \E r \in Requests : SaveUpload(r)
  \/ \E r \in Requests, created \in BOOLEAN : SaveUploadFails(r, created)
  \/ \E r \in Requests, pdf \in Uploads : ExtractText(r, pdf)
  \/ \E r \in Requests : AnalyzerUnavailable(r)
  \/ \E r \in Requests : StartAnalysis(r)
  \/ \E r \in Requests, analysis_text \in ResponseTexts : GenerateReturns(r, analysis_text)
  \/ \E r \in Requests, e \in CallErrors : GenerateRaises(r, "call", e)
  \/ \E r \in Requests : GenerateRaises(r, "no_text", NoTextError)
  \/ \E r \in Requests, unlinked \in BOOLEAN : Cleanup(r, unlinked)

Spec == Init /\ [][Next]_vars

\* One request with a long document.
NextLongDocs ==
  \/ \E filename \in FileNames, issuer_name \in IssuerNames :
        Receive(1, filename, issuer_name)
  \/ RejectNonPdf(1)
  \/ SaveUpload(1)
  \/ \E created \in BOOLEAN : SaveUploadFails(1, created)
  \/ \E pdf \in Uploads \cup LongUploads : ExtractText(1, pdf)
  \/ AnalyzerUnavailable(1)
  \/ StartAnalysis(1)
  \/ \E analysis_text \in ResponseTexts : GenerateReturns(1, analysis_text)
  \/ \E e \in CallErrors : GenerateRaises(1, "call", e)
  \/ GenerateRaises(1, "no_text", NoTextError)
  \/ \E unlinked \in BOOLEAN : Cleanup(1, unlinked)

SpecLongDocs == Init /\ [][NextLongDocs]_vars

GetIssuesByRule(rule) ==
  /\ Len(issues) < MaxQueries
  /\ issues' = Append(issues,
       [fn |-> "get_issues_by_rule", arg |-> rule,
        result |-> get_issues_by_rule(COMPLIANCE_ISSUES_CHECKLIST, rule)])
  /\ UNCHANGED <<globals, compliance_analyzer, tmp_files, pc, request,
                 temp_file_path, extraction_result, prompt, generate_calls,
                 generated, analysis_result, response>>

\* Variant of GetAllIssuesAsPrompt: the categories are put in reverse order
\* in place before they are rendered.
GetAllIssuesAsPromptReversing ==
  /\ Len(issues) < MaxQueries
  /\ LET n == Len(COMPLIANCE_ISSUES_CHECKLIST)
         reversed == [c \in 1..n |-> COMPLIANCE_ISSUES_CHECKLIST[n + 1 - c]]
     IN  /\ COMPLIANCE_ISSUES_CHECKLIST' = reversed
         /\ issues' = Append(issues,
              [fn |-> "get_all_issues_as_prompt", arg |-> "",
               result |-> get_all_issues_as_prompt(reversed)])
  /\ UNCHANGED <<GEMINI_API_KEY, compliance_analyzer, tmp_files, pc, request,
                 temp_file_path, extraction_result, prompt, generate_calls,
                 generated, analysis_result, response>>

\* a call of get_all_issues_as_prompt()
GetAllIssuesAsPrompt ==
  /\ Len(issues) < MaxQueries
  /\ issues' = Append(issues,
       [fn |-> "get_all_issues_as_prompt", arg |-> "",
        result |-> get_all_issues_as_prompt(COMPLIANCE_ISSUES_CHECKLIST)])
  /\ UNCHANGED <<globals, compliance_analyzer, tmp_files, pc, request,
                 temp_file_path, extraction_result, prompt, generate_calls,
                 generated, analysis_result, response>>

NextChecklist ==
  \/ \E severity \in Severities : GetIssuesBySeverity(severity)
  \/ \E rule \in RuleFragments : GetIssuesByRule(rule)
  \/ GetAllIssuesAsPrompt

SpecChecklist == Init /\ [][NextChecklist]_vars

TypeOK ==
  /\ \A r \in Requests :
       pc[r] \in {"idle", "received", "saved", "analyze", "generating", "cleanup", "done"}
  /\ COMPLIANCE_ISSUES_CHECKLIST = StandardChecklist

(***************************************************************************)
(* Properties                                                              *)
(***************************************************************************)
Whitespace == {" ", "\t", "\n", "\r", "\f"}

\* the text is empty after str.strip()
IsBlank(t) == \A i \in DOMAIN t : t[i].ch \in Whitespace

\* the value str.format put in place of {name}
Embedded(p, name) ==
  LET i == CHOOSE j \in DOMAIN p : "field" \in DOMAIN p[j] /\ p[j].field = name
  IN  p[i].value

Called(r) == generate_calls[r] > 0

Analyzed(r) == analysis_result[r] # None

\* the reasoning call of request r failed: generate_content raised, or
\* response.text raised, or the response text is empty
ServiceFailed(r) ==
  /\ generated[r] # None
  /\ \/ generated[r].kind \in {"call", "no_text"}
     \/ generated[r].kind = "text" /\ generated[r].text = ""

\* C1: whenever the reasoning call fails (an exception on the call, a
\* response without usable text, an empty response), analyze_form_c returns
\* a result with success = false, empty structured sections and a
\* non-empty error message.
C1_FailureReported ==
  \A r \in Requests :
    ServiceFailed(r) =>
      /\ Analyzed(r)
      /\ analysis_result[r].success = FALSE
      /\ analysis_result[r].structured_analysis = <<>>
      /\ analysis_result[r].error # None
      /\ analysis_result[r].error[1] # ""

\* the handler passes an empty issuer name, or a document text that is
\* empty after trimming, to the analyzer
InvalidInput(r) ==
  /\ extraction_result[r] # None
  /\ extraction_result[r].success
  /\ \/ request[r].issuer_name = ""
     \/ IsBlank(extraction_result[r].full_text)

\* C2: for an empty issuer name, or a document text that is empty after
\* trimming, no prompt is composed and the reasoning service is never
\* called for the request.
C2_InvalidInputNeverSent ==
  \A r \in Requests :
    InvalidInput(r) => generate_calls[r] = 0 /\ prompt[r] = None

\* C3: the document text embedded in the prompt is the prefix of the
\* analyzer's input of length min(len(input), 100000): never longer than
\* the limit, exactly the limit for a longer input, the whole input
\* otherwise.
C3_EmbeddedTextIsCappedPrefix ==
  \A r \in Requests :
    prompt[r] # None =>
      LET input == extraction_result[r].full_text
          embedded == Embedded(prompt[r], "form_c_text")
      IN  /\ TextLen(embedded) = Min(TextLen(input), MaxFormCChars)
          /\ Concat(embedded, SliceFrom(input, TextLen(embedded))) = input
          /\ TextLen(embedded) <= MaxFormCChars
          /\ TextLen(input) > MaxFormCChars => TextLen(embedded) = MaxFormCChars
          /\ TextLen(input) <= MaxFormCChars => embedded = input

\* a prompt was composed from an input that is longer than the limit and
\* is cut inside a page
C3_Witness ==
  \E r \in Requests :
    /\ prompt[r] # None
    /\ TextLen(extraction_result[r].full_text) > MaxFormCChars + 1
    /\ TextLen(Embedded(prompt[r], "form_c_text")) = MaxFormCChars
    /\ Len(Embedded(prompt[r], "form_c_text")) > 1

\* C4: an analysis makes at most one call of the reasoning service, and
\* every analysis that has returned, with success or with failure, made
\* exactly one call of its own (no retry, no result reused from an earlier
\* analysis of the same input).
C4_OneCallPerAnalysis ==
  \A r \in Requests :
    /\ generate_calls[r] <= 1
    /\ Analyzed(r) => generate_calls[r] = 1

SameInput(r1, r2) ==
  /\ prompt[r1] # None
  /\ prompt[r2] # None
  /\ request[r1].issuer_name = request[r2].issuer_name
  /\ extraction_result[r1].full_text = extraction_result[r2].full_text

\* two analyses of the same input have returned, the first one with a
\* failure, each after one call
C4_Witness ==
  \E r1, r2 \in Requests :
    /\ r1 < r2
    /\ SameInput(r1, r2)
    /\ Analyzed(r1) /\ ~analysis_result[r1].success
    /\ Analyzed(r2) /\ analysis_result[r2].success
    /\ generate_calls[r1] = 1 /\ generate_calls[r2] = 1

SectionFields == {"amendments", "verifications", "compliant_disclosures", "key_personnel"}

\* C5: when the reasoning service returns a text, analyze_form_c returns
\* success = true, the issuer name it was given, raw_analysis equal to the
\* text, and a structured_analysis with the four section fields.
C5_SuccessResult ==
  \A r \in Requests :
    (generated[r] # None /\ generated[r].kind = "text") =>
      /\ Analyzed(r)
      /\ analysis_result[r].success = TRUE
      /\ analysis_result[r].issuer_name = request[r].issuer_name
      /\ analysis_result[r].raw_analysis = generated[r].text
      /\ SectionFields \subseteq DOMAIN analysis_result[r].structured_analysis

C5_Witness ==
  \E r \in Requests :
    /\ generated[r] # None
    /\ generated[r].kind = "text"
    /\ generated[r].text = "NO ISSUES FOUND"
    /\ request[r].issuer_name = "Acme Corp"
    /\ analysis_result[r].raw_analysis = "NO ISSUES FOUND"

\* C6: _parse_analysis gives a result for every text: its raw_text is the
\* text, the four section fields are (empty) sequences, and two analyses
\* that received the same text have the same structured output.
C6_StructureKeepsRawText ==
  \A r \in Requests :
    (generated[r] # None /\ generated[r].kind = "text") =>
      LET s == analysis_result[r].structured_analysis
      IN  /\ DOMAIN s = SectionFields \cup {"raw_text"}
          /\ s.raw_text = generated[r].text
          /\ \A f \in SectionFields : s[f] = <<>>
          /\ \A q \in Requests :
               (generated[q] # None /\ generated[q].kind = "text"
                  /\ generated[q].text = generated[r].text) =>
                 analysis_result[q].structured_analysis = s

\* two analyses received the same non-empty text
C6_Witness ==
  \E r1, r2 \in Requests :
    /\ r1 # r2
    /\ generated[r1] # None /\ generated[r1].kind = "text"
    /\ generated[r2] # None /\ generated[r2].kind = "text"
    /\ generated[r1].text = generated[r2].text
    /\ Len(generated[r1].text) > 2
    /\ analysis_result[r1].structured_analysis.raw_text = generated[r1].text

\* C7: two prompts composed from the same issuer name and document text
\* are identical, whatever was analysed in between.
C7_ComposeDeterministic ==
  \A r1, r2 \in Requests :
    SameInput(r1, r2) => prompt[r1] = prompt[r2]

\* the same input was composed twice, the second time after the first
\* analysis had returned
C7_Witness ==
  \E r1, r2 \in Requests :
    /\ r1 < r2
    /\ SameInput(r1, r2)
    /\ Analyzed(r1)
    /\ extraction_result[r1].full_text # <<>>

\* C8: in every result of analyze_form_c, error is set iff success is
\* false.
C8_ErrorIffFailure ==
  \A r \in Requests :
    Analyzed(r) =>
      (analysis_result[r].success <=> analysis_result[r].error = None)

\* one analysis has succeeded and another has failed
C8_Witness ==
  \E r1, r2 \in Requests :
    /\ Analyzed(r1) /\ analysis_result[r1].success
    /\ Analyzed(r2) /\ ~analysis_result[r2].success
    /\ analysis_result[r2].error # None

Rejected(r, status_code) ==
  /\ response[r] # None
  /\ response[r].type = "HTTPException"
  /\ response[r].status_code = status_code

\* C9: the reasoning service is called for a request only after its file
\* name passed the .pdf check and the extraction reported success; a
\* request rejected for its file name (400) or for a failed extraction
\* (422) made no call.
C9_CallOnlyAfterExtraction ==
  \A r \in Requests :
    /\ Called(r) =>
         /\ EndsWith(request[r].filename, ".pdf")
         /\ extraction_result[r] # None
         /\ extraction_result[r].success
    /\ (extraction_result[r] # None /\ ~extraction_result[r].success) =>
         ~Called(r) /\ Rejected(r, 422)
    /\ (request[r] # None /\ ~EndsWith(request[r].filename, ".pdf")
           /\ pc[r] = "done") =>
         ~Called(r) /\ Rejected(r, 400)

\* one request was rejected for a failed extraction without a call, another
\* reached the reasoning service after a successful extraction
C9_Witness ==
  \E r1, r2 \in Requests :
    /\ Rejected(r1, 422) /\ ~Called(r1) /\ pc[r1] = "done"
    /\ Called(r2) /\ extraction_result[r2].success

Positions ==
  UNION {{<<c, i>> : i \in DOMAIN COMPLIANCE_ISSUES_CHECKLIST[c].issues} :
           c \in DOMAIN COMPLIANCE_ISSUES_CHECKLIST}

ItemAt(p) == COMPLIANCE_ISSUES_CHECKLIST[p[1]].issues[p[2]]

\* category order, then item order within the category
Before(p, q) == p[1] < q[1] \/ (p[1] = q[1] /\ p[2] < q[2])

\* C10: get_issues_by_severity returns exactly the checklist items of the
\* severity, each once, in category order and then item order; for
\* "Critical" the result has an ownership_structure item with rule
\* "Rule 201(h)".
C10_IssuesBySeverity ==
  \A k \in DOMAIN issues :
    issues[k].fn = "get_issues_by_severity" =>
      LET result == issues[k].result
          matching == {p \in Positions : ItemAt(p).severity = issues[k].arg}
      IN  /\ Len(result) = Cardinality(matching)
          /\ \A p \in matching :
               result[1 + Cardinality({q \in matching : Before(q, p)})] = ItemAt(p)
          /\ issues[k].arg = "Critical" =>
               \E i \in DOMAIN result :
                 /\ result[i].rule = "Rule 201(h)"
                 /\ \E p \in Positions :
                      /\ COMPLIANCE_ISSUES_CHECKLIST[p[1]].category = "ownership_structure"
                      /\ ItemAt(p) = result[i]

\* "Critical" was queried, with items from several categories, and a
\* severity no item has
C10_Witness ==
  \E k1, k2 \in DOMAIN issues :
    /\ issues[k1].arg = "Critical"
    /\ Len(issues[k1].result) > 2
    /\ issues[k2].arg = "critical"
    /\ issues[k2].result = <<>>
\* s.startswith(prefix)
StartsWith(s, prefix) ==
  Len(s) >= Len(prefix) /\ SubSeq(s, 1, Len(prefix)) = prefix

\* C11: get_issues_by_rule returns exactly the checklist items whose rule
\* citation contains the argument as a case-sensitive literal substring, in
\* category order and then item order; "Rule 100" returns every item whose
\* citation starts with it, the empty string returns every item, and a
\* lower-case or pattern argument matches nothing.
C11_IssuesByRule ==
  \A k \in DOMAIN issues :
    issues[k].fn = "get_issues_by_rule" =>
      LET result == issues[k].result
          arg == issues[k].arg
          matching == {p \in Positions : Contains(ItemAt(p).rule, arg)}
      IN  /\ Len(result) = Cardinality(matching)
          /\ \A p \in matching :
               result[1 + Cardinality({q \in matching : Before(q, p)})] = ItemAt(p)
          /\ arg = "Rule 100" =>
               /\ Len(result) =
                    Cardinality({p \in Positions : StartsWith(ItemAt(p).rule, "Rule 100")})
               /\ \E i, j \in DOMAIN result : result[i].rule # result[j].rule
          /\ arg = "" => Len(result) = Cardinality(Positions)
          /\ arg \in {"rule 201(h)", "Rule 201(.)"} => result = <<>>

\* "Rule 100" was queried and returned several different citations, the
\* empty string returned all items, and the lower-case citation none
C11_Witness ==
  \E k1, k2, k3 \in DOMAIN issues :
    /\ issues[k1].fn = "get_issues_by_rule" /\ issues[k1].arg = "Rule 100"
    /\ Len(issues[k1].result) > 3
    /\ issues[k2].fn = "get_issues_by_rule" /\ issues[k2].arg = ""
    /\ Len(issues[k2].result) = Cardinality(Positions)
    /\ issues[k3].fn = "get_issues_by_rule" /\ issues[k3].arg = "rule 201(h)"
    /\ issues[k3].result = <<>>
\* the str a run-length encoded text stands for
RECURSIVE TextToStr(_)
TextToStr(t) ==
  IF t = <<>> THEN ""
  ELSE IF t[1].n = 1 THEN t[1].ch \o TextToStr(Tail(t))
       ELSE t[1].ch \o TextToStr(<<[ch |-> t[1].ch, n |-> t[1].n - 1]>> \o Tail(t))

\* the str of one segment of a formatted prompt
PartText(part) ==
  IF "lit" \in DOMAIN part THEN part.lit
  ELSE IF part.field = "form_c_text" THEN TextToStr(part.value)
       ELSE part.value

\* the prompt as one str, as it is passed to generate_content
RECURSIVE PromptText(_)
PromptText(p) == IF p = <<>> THEN "" ELSE PartText(p[1]) \o PromptText(Tail(p))

\* s.count(sub), counting every start position
Occurrences(s, sub) ==
  Cardinality({i \in 1..(Len(s) - Len(sub) + 1) : SubSeq(s, i, i + Len(sub) - 1) = sub})

ChecklistPhrase == "COMPLIANCE CHECKLIST"

\* C12: for an issuer name and a document text that do not contain the
\* phrase, the prompt contains the issuer name and contains
\* "COMPLIANCE CHECKLIST" exactly once.
C12_ChecklistPhraseOnce ==
  \A r \in Requests :
    (/\ prompt[r] # None
     /\ ~Contains(request[r].issuer_name, ChecklistPhrase)
     /\ ~Contains(TextToStr(extraction_result[r].full_text), ChecklistPhrase)) =>
      /\ Contains(PromptText(prompt[r]), request[r].issuer_name)
      /\ Occurrences(PromptText(prompt[r]), ChecklistPhrase) = 1
\* the first position at which sub starts in s, 0 when absent
FirstIndex(s, sub) ==
  LET starts == {i \in 1..(Len(s) - Len(sub) + 1) : SubSeq(s, i, i + Len(sub) - 1) = sub}
  IN  IF starts = {} THEN 0
      ELSE CHOOSE i \in starts : \A j \in starts : i <= j

\* the headings of the prompt, in the order the claim gives: role and task,
\* the four report sections, the analysis rules, the checklist
PromptHeadings ==
  <<"You are an expert compliance analyst",
    "Your task is to analyze",
    "Required Issuer Amendments",
    "Internal Reviewer Verification",
    "Required Disclosures Present and Compliant",
    "Key Personnel and Significant Ownership",
    "**CRITICAL ANALYSIS RULES:**",
    "**COMPLIANCE CHECKLIST:**">>

\* the headings, the checklist, the issuer name and the document text
\* follow each other in the prompt p
PromptInOrder(p) ==
  /\ Len(p) = 7
  /\ "lit" \in DOMAIN p[1]
  /\ \A h \in DOMAIN PromptHeadings : FirstIndex(p[1].lit, PromptHeadings[h]) > 0
  /\ \A h \in 1..(Len(PromptHeadings) - 1) :
       FirstIndex(p[1].lit, PromptHeadings[h]) < FirstIndex(p[1].lit, PromptHeadings[h + 1])
  /\ "field" \in DOMAIN p[2] /\ p[2].field = "checklist"
  /\ "lit" \in DOMAIN p[3] /\ Contains(p[3].lit, "Issuer: ")
  /\ "field" \in DOMAIN p[4] /\ p[4].field = "issuer_name"
  /\ "field" \in DOMAIN p[6] /\ p[6].field = "form_c_text"

\* C13: the prompt has the role and task statement, the four report
\* sections, the analysis rules, the checklist, the issuer name and the
\* document text in this order, and its checklist part is the rendering of
\* the checklist model, so that every category title and every issue of
\* the model occurs in the prompt.
C13_PromptEmbedsRenderedChecklist ==
  \A r \in Requests :
    prompt[r] # None =>
      /\ PromptInOrder(prompt[r])
      /\ Embedded(prompt[r], "issuer_name") = request[r].issuer_name
      /\ Embedded(prompt[r], "checklist") =
           get_all_issues_as_prompt(COMPLIANCE_ISSUES_CHECKLIST)
      /\ \A p \in Positions : Contains(PromptText(prompt[r]), ItemAt(p).issue)
      /\ \A c \in DOMAIN COMPLIANCE_ISSUES_CHECKLIST :
           Contains(PromptText(prompt[r]),
                    Title(Replace(COMPLIANCE_ISSUES_CHECKLIST[c].category, "_", " ")))
\* C14: without a credential the service fails at startup: it never
\* accepts a request.
C14_FailsFastWithoutKey ==
  GEMINI_API_KEY = None => \A r \in Requests : request[r] = None

KeyMissingDetail ==
  "Gemini API key not configured. Please set GEMINI_API_KEY environment variable."

\* C14 as amended: without a credential the service still accepts requests;
\* no analyzer is created and no call is made, and every request whose
\* extraction succeeded is rejected with status 500 and the message that
\* the key is not configured.
C14_MissingKeyReportedPerRequest ==
  GEMINI_API_KEY = None =>
    /\ compliance_analyzer = None
    /\ \A r \in Requests :
         /\ generate_calls[r] = 0
         /\ prompt[r] = None
         /\ analysis_result[r] = None
         /\ (extraction_result[r] # None /\ extraction_result[r].success
               /\ pc[r] \in {"cleanup", "done"}) =>
              /\ Rejected(r, 500)
              /\ response[r].detail = KeyMissingDetail

\* without a credential two requests were accepted and both were rejected
\* at the analysis step
C14_Witness ==
  /\ GEMINI_API_KEY = None
  /\ \E r1, r2 \in Requests :
       /\ r1 < r2
       /\ pc[r1] = "done" /\ extraction_result[r1] # None /\ extraction_result[r1].success
       /\ Rejected(r1, 500)
       /\ pc[r2] = "done" /\ extraction_result[r2] # None /\ extraction_result[r2].success
       /\ Rejected(r2, 500)
\* the variables of request r
Own(r) ==
  <<pc[r], request[r], temp_file_path[r], extraction_result[r], prompt[r],
    generate_calls[r], generated[r], analysis_result[r], response[r]>>

\* the prompt and the result of request r are made of its own inputs: its
\* issuer name, the text extracted from its upload and the narrative its
\* own call returned
OwnResult(r) ==
  /\ prompt[r] # None =>
       /\ Embedded(prompt[r], "issuer_name") = request[r].issuer_name
       /\ Embedded(prompt[r], "form_c_text") =
            SlicePrefix(extraction_result[r].full_text, MaxFormCChars)
  /\ analysis_result[r] # None =>
       analysis_result[r].issuer_name = request[r].issuer_name
  /\ (response[r] # None /\ response[r].type = "JSONResponse") =>
       /\ response[r].content.issuer_name = request[r].issuer_name
       /\ response[r].content.total_pages = extraction_result[r].total_pages
       /\ generated[r] # None /\ generated[r].kind = "text"
       /\ response[r].content.raw_analysis = generated[r].text

\* a step is taken by one request: it leaves the variables of all other
\* requests alone and touches no temporary file but its own
OwnStep ==
  \E r \in Requests :
    /\ \A q \in Requests \ {r} : Own(q)' = Own(q)
    /\ (tmp_files' \ tmp_files) \cup (tmp_files \ tmp_files') \subseteq {TempPath(r)}

\* C15: requests are independent: every result is made of the request's own
\* issuer name and narrative, a step changes the state of one request only,
\* and the state the requests share (key, checklist, reasoning client) is
\* never written while requests are handled.
C15_SharedStateReadOnly ==
  /\ [](\A r \in Requests : OwnResult(r))
  /\ [][ /\ OwnStep
         /\ globals' = globals
         /\ compliance_analyzer' = compliance_analyzer ]_vars

\* C15 as amended: as above, except that the reasoning client is created
\* by the first request that reaches the analysis step, from the key of the
\* environment, and is never changed after that.
C15_ClientWrittenOnce ==
  /\ [](\A r \in Requests : OwnResult(r))
  /\ [][ /\ OwnStep
         /\ globals' = globals
         /\ compliance_analyzer # None => compliance_analyzer' = compliance_analyzer
         /\ compliance_analyzer' # compliance_analyzer =>
              /\ GEMINI_API_KEY # None
              /\ compliance_analyzer' =
                   Some([api_key |-> GEMINI_API_KEY[1], model |-> MODEL_NAME])
              /\ \E r \in Requests : pc[r] = "analyze" /\ pc'[r] = "generating" ]_vars

\* two requests are in flight: the first has its result and uses the client
\* it created, the second has arrived with another issuer name
C15_Witness ==
  /\ request[1] # None /\ request[2] # None
  /\ request[1].issuer_name # request[2].issuer_name
  /\ pc[1] = "cleanup" /\ pc[2] = "received"
  /\ compliance_analyzer # None
  /\ response[1] # None /\ response[1].type = "JSONResponse"
  /\ response[1].content.issuer_name = request[1].issuer_name
ResultFields ==
  {"success", "issuer_name", "total_pages", "raw_analysis",
   "structured_analysis", "model_used", "error"}

\* C16: every finished request has either a result with all seven fields
\* or an HTTP error with a status code and a detail message, also when
\* saving the upload or removing the temporary file failed.
C16_ResultOrRejection ==
  \A r \in Requests :
    pc[r] = "done" =>
      /\ response[r] # None
      /\ \/ /\ response[r].type = "JSONResponse"
            /\ DOMAIN response[r].content = ResultFields
         \/ /\ response[r].type = "HTTPException"
            /\ response[r].status_code \in {400, 422, 500}
            /\ response[r].detail # ""

\* C18: no temporary file outlives its request: when the handler has
\* finished, the file it saved the upload to is deleted.
C18_TempFileDeleted ==
  \A r \in Requests : pc[r] = "done" => TempPath(r) \notin tmp_files
\* C17: the checklist is never changed by its queries: after any sequence
\* of by-severity, by-rule and rendering calls it has its initial contents
\* and order, and every rendering call returned the same text.
C17_ChecklistReadOnly ==
  /\ COMPLIANCE_ISSUES_CHECKLIST = StandardChecklist
  /\ \A k1, k2 \in DOMAIN issues :
       (issues[k1].fn = "get_all_issues_as_prompt"
         /\ issues[k2].fn = "get_all_issues_as_prompt") =>
         issues[k1].result = issues[k2].result

\* the checklist was rendered, queried by severity with a non-empty result,
\* and rendered again
C17_Witness ==
  /\ Len(issues) >= 3
  /\ issues[1].fn = "get_all_issues_as_prompt"
  /\ issues[2].fn = "get_issues_by_severity" /\ issues[2].result # <<>>
  /\ issues[3].fn = "get_all_issues_as_prompt"
  /\ Len(issues[1].result) > 0
====
